---- MODULE Spec2Model ----
(***************************************************************************)
(* Model of the song catalog server in src/src/main.rs: an axum service    *)
(* whose handlers share an AppState holding a SQLite pool (table `songs`)  *)
(* and an atomic visit counter.  Every SQL statement is one atomic step of *)
(* the database; a handler that issues two statements (play_song) takes    *)
(* two steps and other handlers may run in between.  The handlers between  *)
(* their two statements are kept as a bag: tasks have no identity.         *)
(*                                                                         *)
(* Text is a sequence of characters of the alphabet Chars.  A character is *)
(* a string: an ASCII character stands for itself, except NUL and the      *)
(* grave accent, which like every character outside ASCII are written as   *)
(* the name of their code point ("U+0000", "U+0060", "U+03A3").  The text  *)
(* operators are defined on Chars only: on any other character they have   *)
(* no value.  An Option<String> is a sequence of length 0 (None) or 1      *)
(* (Some).  An integer wider than 31 bits                                  *)
(* is a record [q, r] standing for q * 2^31 + r with 0 <= r < 2^31.        *)
(***************************************************************************)
EXTENDS Integers, Sequences, FiniteSets, Bags

\* ---------------------------------------------------------------- bounds
MaxSongs == 2
MaxPlays == 2
MaxVisits == 2
MaxReq == 2

\* ------------------------------------------------------ program constants
I32Max == 2147483647
\* SQLITE_MAX_LIKE_PATTERN_LENGTH, in bytes, of the database the pool opens.
LikePatternLimit == 50000

VARIABLES songs, seq, visit_count, inflight, last, created, played

vars == <<songs, seq, visit_count, inflight, last, created, played>>

\* ------------------------------------------------------------- wide ints
Wide(q, r) == [q |-> q, r |-> r]

\* A small non-negative integer (a rowid, 0 <= n < 2^31) as a wide integer.
ToWide(n) == Wide(0, n)

\* `x as i32` of a non-negative integer: keep the low 32 bits, read them as
\* two's complement.  Bit 31 of q * 2^31 + r is the low bit of q.
AsI32(w) == IF w.q % 2 = 0 THEN w.r ELSE (w.r - I32Max) - 1

\* ------------------------------------------------------------------ text
AsciiUpper ==
    <<"A", "B", "C", "D", "E", "F", "G", "H", "I", "J", "K", "L", "M",
      "N", "O", "P", "Q", "R", "S", "T", "U", "V", "W", "X", "Y", "Z">>
AsciiLower ==
    <<"a", "b", "c", "d", "e", "f", "g", "h", "i", "j", "k", "l", "m",
      "n", "o", "p", "q", "r", "s", "t", "u", "v", "w", "x", "y", "z">>

AsciiUpperSet == {AsciiUpper[i] : i \in 1..Len(AsciiUpper)}
AsciiLowerSet == {AsciiLower[i] : i \in 1..Len(AsciiLower)}

IsAsciiUpper(c) == c \in AsciiUpperSet

\* The lower-case letter of each upper-case ASCII letter.
AsciiLowerOf ==
    [c \in AsciiUpperSet |->
        AsciiLower[CHOOSE i \in 1..Len(AsciiUpper) : AsciiUpper[i] = c]]

\* ASCII case folding (SQLite's sqlite3UpperToLower).
AsciiFold(c) == IF IsAsciiUpper(c) THEN AsciiLowerOf[c] ELSE c

\* The other ASCII characters of the alphabet.
AsciiOther ==
    {"0", "1", "2", "3", "4", "5", "6", "7", "8", "9", " ", "%", "_", "-",
     ",", "!", "?", "'", ".", ":", "^", "U+0060", "U+0000"}

Ascii == AsciiUpperSet \cup AsciiLowerSet \cup AsciiOther

\* Characters of two bytes of UTF-8: feminine ordinal, soft hyphen, middle
\* dot, A-grave, E-acute, sharp s, a-grave, e-acute, I-with-dot-above,
\* D-with-small-z-caron and its lower case, A-with-stroke, combining dot
\* above, Alpha, Sigma, alpha, final sigma, sigma.
TwoBytes ==
    {"U+00AA", "U+00AD", "U+00B7", "U+00C0", "U+00C9", "U+00DF", "U+00E0",
     "U+00E9", "U+0130", "U+01C5", "U+01C6", "U+023A", "U+0307", "U+0391",
     "U+03A3", "U+03B1", "U+03C2", "U+03C3"}

\* Characters of three bytes: capital sharp s, Kelvin sign, small a with
\* stroke, the ideograph U+4E2D.
ThreeBytes == {"U+1E9E", "U+212A", "U+2C65", "U+4E2D"}

Chars == Ascii \cup TwoBytes \cup ThreeBytes

\* char::len_utf8
len_utf8(c) ==
    CASE c \in Ascii -> 1
      [] c \in TwoBytes -> 2
      [] c \in ThreeBytes -> 3

\* The characters of Chars that char::to_lowercase changes.
HasLowerCase ==
    AsciiUpperSet \cup
    {"U+00C0", "U+00C9", "U+0130", "U+01C5", "U+023A", "U+0391", "U+03A3",
     "U+1E9E", "U+212A"}
NoLowerCase == Chars \ HasLowerCase

\* char::to_lowercase: the lower case of one character, as text.
LowerChar(c) ==
    CASE IsAsciiUpper(c) -> <<AsciiLowerOf[c]>>
      [] c = "U+00C0" -> <<"U+00E0">>
      [] c = "U+00C9" -> <<"U+00E9">>
      [] c = "U+0130" -> <<"i", "U+0307">>
      [] c = "U+01C5" -> <<"U+01C6">>
      [] c = "U+023A" -> <<"U+2C65">>
      [] c = "U+0391" -> <<"U+03B1">>
      [] c = "U+03A3" -> <<"U+03C3">>
      [] c = "U+1E9E" -> <<"U+00DF">>
      [] c = "U+212A" -> <<"k">>
      [] c \in NoLowerCase -> <<c>>

\* Unicode properties Cased and Case_Ignorable, on Chars.
CasedChars ==
    AsciiUpperSet \cup AsciiLowerSet \cup
    {"U+00AA", "U+00C0", "U+00C9", "U+00DF", "U+00E0", "U+00E9", "U+0130",
     "U+01C5", "U+01C6", "U+023A", "U+0391", "U+03A3", "U+03B1", "U+03C2",
     "U+03C3", "U+1E9E", "U+212A", "U+2C65"}
CaseIgnorableChars ==
    {"'", ".", ":", "^", "U+0060", "U+00AD", "U+00B7", "U+0307"}
UncasedChars == Chars \ CasedChars
NotCaseIgnorableChars == Chars \ CaseIgnorableChars

Cased(c) ==
    CASE c \in CasedChars -> TRUE
      [] c \in UncasedChars -> FALSE
Case_Ignorable(c) ==
    CASE c \in CaseIgnorableChars -> TRUE
      [] c \in NotCaseIgnorableChars -> FALSE

\* case_ignorable_then_cased over s[j], s[j + step], ...
RECURSIVE case_ignorable_then_cased(_, _, _)
case_ignorable_then_cased(s, j, step) ==
    IF j < 1 \/ j > Len(s) THEN FALSE
    ELSE IF Case_Ignorable(s[j]) THEN case_ignorable_then_cased(s, j + step, step)
    ELSE Cased(s[j])

\* map_uppercase_sigma: a Sigma that ends a word becomes the final sigma.
map_uppercase_sigma(s, i) ==
    IF /\ case_ignorable_then_cased(s, i - 1, -1)
       /\ ~case_ignorable_then_cased(s, i + 1, 1)
    THEN <<"U+03C2">>
    ELSE <<"U+03C3">>

\* str::to_lowercase: the lower case of s[lo..hi] within s, character by
\* character (the range is halved only to keep the evaluation shallow).
RECURSIVE LowercaseRange(_, _, _)
LowercaseRange(s, lo, hi) ==
    IF lo > hi THEN <<>>
    ELSE IF lo = hi
         THEN (IF s[lo] = "U+03A3" THEN map_uppercase_sigma(s, lo)
               ELSE LowerChar(s[lo]))
    ELSE LET mid == (lo + hi) \div 2
         IN LowercaseRange(s, lo, mid) \o LowercaseRange(s, mid + 1, hi)
to_lowercase(s) == LowercaseRange(s, 1, Len(s))

\* str::len: the length of the text in bytes of UTF-8.
ByteLen(s) ==
    LET n(k) == Cardinality({i \in 1..Len(s) : len_utf8(s[i]) = k})
    IN n(1) + 2 * n(2) + 3 * n(3)

Tail2(s) == SubSeq(s, 2, Len(s))

\* SQLite reads the pattern and the text of a LIKE as NUL-terminated: what
\* follows the first U+0000 is not looked at.
UpToNul(s) ==
    IF \E i \in 1..Len(s) : s[i] = "U+0000"
    THEN SubSeq(s, 1, (CHOOSE i \in 1..Len(s) :
                          /\ s[i] = "U+0000"
                          /\ \A j \in 1..(i - 1) : s[j] # "U+0000") - 1)
    ELSE s

\* patternCompare: '%' matches any run of characters, '_' exactly one, any
\* other character itself, ignoring ASCII case; there is no escape character.
RECURSIVE patternCompare(_, _)
patternCompare(pat, text) ==
    IF pat = <<>> THEN text = <<>>
    ELSE IF pat[1] = "%"
         THEN \/ patternCompare(Tail2(pat), text)
              \/ (text # <<>> /\ patternCompare(pat, Tail2(text)))
    ELSE IF text = <<>> THEN FALSE
    ELSE IF pat[1] = "_" THEN patternCompare(Tail2(pat), Tail2(text))
    ELSE /\ AsciiFold(pat[1]) = AsciiFold(text[1])
         /\ patternCompare(Tail2(pat), Tail2(text))

\* text LIKE pat
Like(pat, text) == patternCompare(UpToNul(pat), UpToNul(text))

\* format!("%{}%", filter.to_lowercase())
LikePattern(filter) == <<"%">> \o to_lowercase(filter) \o <<"%">>

None == <<>>
Some(s) == <<s>>

\* ------------------------------------------------------------ the table
\* struct Song, as serialised in responses.
Song(id, title, artist, genre, play_count) ==
    [id |-> id, title |-> title, artist |-> artist, genre |-> genre,
     play_count |-> play_count]

\* The row written by INSERT INTO songs (...) VALUES (?, ?, ?, ?, ?, ?, 0).
InsertRowSwapped(payload) ==
    [title_lowercase |-> to_lowercase(payload.title),
     artist_lowercase |-> to_lowercase(payload.genre),
     genre_lowercase |-> to_lowercase(payload.artist),
     title |-> payload.title,
     artist |-> payload.genre,
     genre |-> payload.artist,
     play_count |-> 0]
InsertRow(payload) ==
    [title_lowercase |-> to_lowercase(payload.title),
     artist_lowercase |-> to_lowercase(payload.artist),
     genre_lowercase |-> to_lowercase(payload.genre),
     title |-> payload.title,
     artist |-> payload.artist,
     genre |-> payload.genre,
     play_count |-> 0]

\* id INTEGER PRIMARY KEY AUTOINCREMENT: one more than the largest rowid ever used.
NextRowid(s) == s + 1

\* let song_id = result.last_insert_rowid() as i32;
SongIdRowsAffected(result) == result.rows_affected
SongId(result) == AsI32(ToWide(result.last_insert_rowid))

\* sqlx::FromRow for Song: columns are taken by name, the id column as i32.
FromRow(rowid, row) ==
    Song(AsI32(ToWide(rowid)), row.title, row.artist, row.genre, row.play_count)

\* UPDATE songs SET play_count = play_count + 1 WHERE id = ?
UpdateAllRows(rows, id) ==
    [k \in DOMAIN rows |-> [rows[k] EXCEPT !.play_count = @ + 1]]
UpdatePlayCount(rows, id) ==
    [k \in DOMAIN rows |->
        IF k = id THEN [rows[k] EXCEPT !.play_count = @ + 1] ELSE rows[k]]

RowsAffected(rows, id) == IF id \in DOMAIN rows THEN 1 ELSE 0

\* SELECT * FROM songs WHERE 1=1 [AND <col>_lowercase LIKE ?]...
Matches(row, params) ==
    /\ (params.title # None =>
            Like(LikePattern(params.title[1]), row.title_lowercase))
    /\ (params.artist # None =>
            Like(LikePattern(params.artist[1]), row.artist_lowercase))
    /\ (params.genre # None =>
            Like(LikePattern(params.genre[1]), row.genre_lowercase))

\* The SELECT fails ("LIKE or GLOB pattern too complex") when a bound pattern
\* is longer than the limit.  A row on which no such pattern is evaluated has
\* failed another condition, so the outcome does not depend on the rows.
SelectFails(params) ==
    \E f \in {params.title, params.artist, params.genre} :
        f # None /\ ByteLen(LikePattern(f[1])) > LikePatternLimit

\* The rows search_song returns (their order is the database's choice);
\* unwrap_or_else(|_| Vec::new()) answers a failed SELECT with no rows.
SearchResult(rows, params) ==
    IF SelectFails(params) THEN {}
    ELSE {FromRow(k, rows[k]) :
            k \in {j \in DOMAIN rows : Matches(rows[j], params)}}

\* ---------------------------------------------------------------- inputs
NewSongs ==
    { [title |-> <<"A", "b">>, artist |-> <<"B">>,
       genre |-> <<"R", "o", "c", "k">>],
      [title |-> <<"b", "U+03A3", "U+0060", "b">>, artist |-> <<"a", "_">>,
       genre |-> <<"U+0391", "U+03A3">>] }

NoFilter == [title |-> None, artist |-> None, genre |-> None]

QueryParams ==
    { NoFilter,
      [title |-> Some(<<"U+0000">>), artist |-> None, genre |-> None],
      [title |-> None, artist |-> Some(<<"_">>), genre |-> None],
      [title |-> Some(<<"b">>), artist |-> None,
       genre |-> Some(<<"r", "o", "c", "k">>)],
      [title |-> None, artist |-> None, genre |-> Some(<<"U+03B1", "U+03A3">>)],
      [title |-> None, artist |-> None, genre |-> Some(<<"%">>)] }

\* Path ids (usize on a 64-bit build): 1 .. MaxSongs + 1, 2^31 + 1, 2^32 + 1.
PlayIds ==
    {ToWide(i) : i \in 1..(MaxSongs + 1)} \cup {Wide(1, 1), Wide(2, 1)}

\* Number of UPDATE statements that have changed a row, over all rows.
RECURSIVE TotalPlays(_, _)
TotalPlays(rows, ks) ==
    IF ks = {} THEN 0
    ELSE LET k == CHOOSE x \in ks : TRUE
         IN rows[k].play_count + TotalPlays(rows, ks \ {k})

NotFoundBody == [error |-> "Song not found"]

\* ------------------------------------------------------------------ Init
\* A fresh database (main creates the file and the table) and visit_count = 0.
\* After a restart the table is whatever earlier runs left in songs.db, which
\* is a table state reachable here.
Init ==
    /\ songs = <<>>
    /\ seq = 0
    /\ visit_count = 0
    /\ inflight = EmptyBag
    /\ last = [handler |-> "none"]
    /\ created = <<>>
    /\ played = [w \in PlayIds |-> 0]

\* --------------------------------------------------------------- actions
\* GET /count.  fetch_add on the AtomicU32 is one atomic step; the rest of the
\* handler works on its local copy.  (The counter wraps at 2^32, far beyond
\* MaxVisits.)
handle_count ==
    /\ visit_count < MaxVisits
    /\ visit_count' = visit_count + 1
    /\ LET count == (visit_count + 1) + 1
       IN last' = [handler |-> "handle_count", count |-> count]
    /\ UNCHANGED <<songs, seq, inflight, created, played>>

\* POST /songs/new
add_new_song(payload) ==
    /\ seq < MaxSongs
    /\ LET rowid == NextRowid(seq)
           result == [last_insert_rowid |-> rowid, rows_affected |-> 1]
           song == Song(SongId(result), payload.title, payload.artist,
                        payload.genre, 0)
       IN /\ songs' = [k \in DOMAIN songs \cup {rowid} |->
                          IF k = rowid THEN InsertRow(payload) ELSE songs[k]]
          /\ seq' = rowid
          /\ last' = [handler |-> "add_new_song", payload |-> payload,
                      response |-> song]
          /\ created' = Append(created, [payload |-> payload, response |-> song])
    /\ UNCHANGED <<visit_count, inflight, played>>

\* GET /songs/search
search_song(params) ==
    /\ last' = [handler |-> "search_song", params |-> params,
                response |-> SearchResult(songs, params)]
    /\ UNCHANGED <<songs, seq, visit_count, inflight, created, played>>

\* GET /songs/play/:id, first statement: the UPDATE and the rows_affected test.
play_song_update(id) ==
    /\ BagCardinality(inflight) < MaxReq
    /\ LET bound == AsI32(id)
           existed == \E k \in DOMAIN songs : ToWide(k) = id
       IN IF RowsAffected(songs, bound) = 0
          THEN /\ last' = [handler |-> "play_song", id |-> id,
                           existed |-> existed, response |-> NotFoundBody]
               /\ UNCHANGED <<songs, inflight, played>>
          ELSE /\ TotalPlays(songs, DOMAIN songs) < MaxPlays
               /\ songs' = UpdatePlayCount(songs, bound)
               /\ inflight' = inflight (+) SetToBag(
                     {[id |-> id, existed |-> existed,
                       own |-> songs[bound].play_count + 1]})
               /\ played' = [played EXCEPT ![id] = @ + 1]
               /\ UNCHANGED last
    /\ UNCHANGED <<seq, visit_count, created>>

\* GET /songs/play/:id, second statement: the SELECT and the response.
play_song_select ==
    \E task \in BagToSet(inflight) :
    /\ BagIn(task, inflight)
    /\ LET bound == AsI32(task.id)
           row == songs[bound]
           song == <<bound, row.title, row.artist, row.genre, row.play_count>>
       IN last' = [handler |-> "play_song", id |-> task.id,
                   existed |-> task.existed,
                   own |-> task.own,
                   response |-> [id |-> song[1], title |-> song[2],
                                 genre |-> song[3], artist |-> song[4],
                                 play_count |-> song[5]]]
    /\ inflight' = inflight (-) SetToBag({task})
    /\ UNCHANGED <<songs, seq, visit_count, created, played>>

Next ==
    \/ handle_count
    \/ \E payload \in NewSongs : add_new_song(payload)
    \/ \E params \in QueryParams : search_song(params)
    \/ \E id \in PlayIds : play_song_update(id)
    \/ play_song_select

Spec == Init /\ [][Next]_vars

\* ============================================================== claims
\* Case-insensitive substring test, as the search contract words it.
IsSubstring(needle, hay) ==
    \E i \in 0..(Len(hay) - Len(needle)) :
        \A j \in 1..Len(needle) : needle[j] = hay[i + j]

IsSubstringCI(needle, hay) ==
    IsSubstring(to_lowercase(needle), to_lowercase(hay))

SubstringMatches(row, params) ==
    /\ (params.title # None => IsSubstringCI(params.title[1], row.title))
    /\ (params.artist # None => IsSubstringCI(params.artist[1], row.artist))
    /\ (params.genre # None => IsSubstringCI(params.genre[1], row.genre))

SubstringResult(rows, params) ==
    {FromRow(k, rows[k]) :
        k \in {j \in DOMAIN rows : SubstringMatches(rows[j], params)}}

\* The last response is a Song returned by play_song.
PlayReturnedSong ==
    /\ last.handler = "play_song"
    /\ last.response # NotFoundBody

\* No UPDATE issued for a path id other than k itself has hit row k.
AliasFree(k) ==
    \A w \in PlayIds : (w # ToWide(k) /\ AsI32(w) = k) => played[w] = 0

\* No UPDATE at all has hit row k.
NotPlayed(k) == \A w \in PlayIds : AsI32(w) = k => played[w] = 0

\* C1: the ids returned by creates are pairwise distinct and strictly
\* increasing in the order in which the inserts were applied.
C1_IdsDistinctIncreasing ==
    \A i, j \in 1..Len(created) :
        i < j => created[i].response.id < created[j].response.id

C1_Witness ==
    /\ Len(created) >= 2
    /\ created[1].response.id # created[2].response.id

\* C2: for every existing id, the stored play_count equals the number of
\* UPDATEs executed by plays that asked for that id (no lost update, however
\* the plays interleave), and no step lowers a stored play_count.
C2_NoLostUpdate ==
    /\ [](\A k \in DOMAIN songs :
            AliasFree(k) => songs[k].play_count = played[ToWide(k)])
    /\ [][\A k \in DOMAIN songs :
            songs'[k].play_count >= songs[k].play_count]_vars

C2_Witness ==
    \E k \in DOMAIN songs :
        /\ AliasFree(k)
        /\ played[ToWide(k)] >= 2
        /\ songs[k].play_count = played[ToWide(k)]
        /\ \E t1, t2 \in BagToSet(inflight) :
              t1.id = ToWide(k) /\ t2.id = ToWide(k) /\ t1.own # t2.own

\* C3: the play_count in the Song a play returns is the value produced by
\* that call's own increment.
C3_PlayReturnsOwnIncrement ==
    PlayReturnedSong => last.response.play_count = last.own

\* C4: a play of an id for which no record exists answers with the
\* NotFound payload.
C4_AbsentIdIsNotFound ==
    (last.handler = "play_song" /\ ~last.existed) =>
        last.response = NotFoundBody

\* C5: the Song a play returns has the id, title, artist and genre of the
\* record as it was created.
C5_PlayReturnsCreatedFields ==
    PlayReturnedSong =>
        \E i \in 1..Len(created) :
            /\ created[i].response.id = last.response.id
            /\ created[i].response.title = last.response.title
            /\ created[i].response.artist = last.response.artist
            /\ created[i].response.genre = last.response.genre

\* C6: a search returns exactly the stored records for which every supplied
\* filter is a case-insensitive substring of the corresponding field (all
\* records when no filter is supplied).
C6_SearchIsSubstringFilter ==
    [][(/\ last'.handler = "search_song"
        /\ UNCHANGED <<songs, seq, visit_count, inflight, created, played>>)
       => last'.response = SubstringResult(songs, last'.params)]_vars

\* C7: a create returns play_count 0 and the title, artist and genre of the
\* request, and until the record is played an unfiltered search returns
\* exactly the record the create returned.
C7_CreateReturnsStored ==
    \A i \in 1..Len(created) :
        LET c == created[i] IN
        /\ c.response.play_count = 0
        /\ c.response.title = c.payload.title
        /\ c.response.artist = c.payload.artist
        /\ c.response.genre = c.payload.genre
        /\ (NotPlayed(c.response.id) =>
                c.response \in SearchResult(songs, NoFilter))

C7_Witness ==
    /\ Len(created) >= 1
    /\ last.handler = "search_song"
    /\ last.params = NoFilter
    /\ created[1].response \in last.response

\* C8: creates and plays do not themselves write to durable storage (the
\* songs table of the database file); only a flush does.
C8_NoWriteThrough ==
    [][(created' # created \/ played' # played) => songs' = songs]_vars

\* C9: the record a play returns has the id that was requested.
C9_PlayedIdIsRequestedId ==
    PlayReturnedSong => ToWide(last.response.id) = last.id

\* C10: the k-th /count request reports k.
C10_CountReportsOrdinal ==
    last.handler = "handle_count" => last.count = visit_count

====
